---------------------------- MODULE Spec2Model ----------------------------
(***************************************************************************)
(* The repository history range resolver of clintjedwards/release          *)
(* (src/cli/git.rs): semver tag selection, default-branch resolution and   *)
(* the merge-base / history walk, over a git repository whose references   *)
(* and commit graph are built by the environment.                          *)
(*                                                                         *)
(* Strings the code inspects are sequences of one-character strings (tag   *)
(* short names) or of path components (reference names), so that prefix    *)
(* stripping, parsing and comparison are computed, not assumed.            *)
(***************************************************************************)
EXTENDS Integers, Sequences, FiniteSets, TLC

(***************************************************************************)
(* Bounds of the model.                                                    *)
(***************************************************************************)
MaxCommits == 4
MaxTags == 2

None == [kind |-> "none"]

Some(v) == [kind |-> "some", val |-> v]

(***************************************************************************)
(* Characters, in ASCII order: CharCode gives the byte order Rust's str    *)
(* comparison uses.                                                        *)
(***************************************************************************)
Alphabet ==
    <<"+", "-", ".", "0", "1", "2", "3", "4", "5", "6", "7", "8", "9",
      "V", "a", "b", "c", "e", "h", "l", "n", "p", "r", "s", "t", "v">>

CharCode(c) == CHOOSE i \in 1..Len(Alphabet) : Alphabet[i] = c

Digits == {"0", "1", "2", "3", "4", "5", "6", "7", "8", "9"}

DigitVal(c) == CharCode(c) - CharCode("0")

IsIdentChar(c) == c \in Digits \/ c = "-" \/ CharCode(c) >= CharCode("V")

AllDigits(s) == \A i \in 1..Len(s) : s[i] \in Digits

\* variant: every leading 'v' is stripped
RECURSIVE StripV_AllLeading(_)
StripV_AllLeading(name) ==
    IF Len(name) >= 1 /\ name[1] = "v"
    THEN StripV_AllLeading(SubSeq(name, 2, Len(name)))
    ELSE name

\* Rust: name.strip_prefix('v').unwrap_or(name)
StripV(name) ==
    IF Len(name) >= 1 /\ name[1] = "v" THEN SubSeq(name, 2, Len(name)) ELSE name

\* position of the first occurrence of character c in s, 0 when absent
RECURSIVE FindFrom(_, _, _)
FindFrom(s, c, i) ==
    IF i > Len(s) THEN 0
    ELSE IF s[i] = c THEN i
    ELSE FindFrom(s, c, i + 1)

Find(s, c) == FindFrom(s, c, 1)

\* str::split(c): the pieces between occurrences of c (always at least one)
RECURSIVE Split(_, _)
Split(s, c) ==
    LET p == Find(s, c) IN
    IF p = 0 THEN <<s>>
    ELSE <<SubSeq(s, 1, p - 1)>> \o Split(SubSeq(s, p + 1, Len(s)), c)

RECURSIVE NumVal(_)
NumVal(s) ==
    IF Len(s) = 0 THEN 0
    ELSE 10 * NumVal(SubSeq(s, 1, Len(s) - 1)) + DigitVal(s[Len(s)])

\* a numeric component: digits only, no leading zero
ValidNumeric(s) ==
    /\ Len(s) >= 1
    /\ AllDigits(s)
    /\ (Len(s) > 1 => s[1] # "0")

\* a pre-release identifier: [0-9A-Za-z-]+, numeric ones without leading zero
ValidPreIdent(s) ==
    /\ Len(s) >= 1
    /\ \A i \in 1..Len(s) : IsIdentChar(s[i])
    /\ (AllDigits(s) /\ Len(s) > 1 => s[1] # "0")

\* a build identifier: [0-9A-Za-z-]+
ValidBuildIdent(s) ==
    /\ Len(s) >= 1
    /\ \A i \in 1..Len(s) : IsIdentChar(s[i])

(***************************************************************************)
(* semver::Version::parse: MAJOR.MINOR.PATCH[-PRE][+BUILD], strict.        *)
(* The result is None or Some(version record).                             *)
(***************************************************************************)
ParseVersion(s) ==
    LET plus == Find(s, "+")
        head == IF plus = 0 THEN s ELSE SubSeq(s, 1, plus - 1)
        buildStr == IF plus = 0 THEN <<>> ELSE SubSeq(s, plus + 1, Len(s))
        dash == Find(head, "-")
        core == IF dash = 0 THEN head ELSE SubSeq(head, 1, dash - 1)
        preStr == IF dash = 0 THEN <<>> ELSE SubSeq(head, dash + 1, Len(head))
        nums == Split(core, ".")
        pre == IF dash = 0 THEN <<>> ELSE Split(preStr, ".")
        build == IF plus = 0 THEN <<>> ELSE Split(buildStr, ".")
    IN  IF /\ Len(nums) = 3
           /\ \A i \in 1..3 : ValidNumeric(nums[i])
           /\ \A i \in 1..Len(pre) : ValidPreIdent(pre[i])
           /\ \A i \in 1..Len(build) : ValidBuildIdent(build[i])
        THEN Some([major |-> NumVal(nums[1]), minor |-> NumVal(nums[2]),
                   patch |-> NumVal(nums[3]), pre |-> pre, build |-> build])
        ELSE None

CmpInt(a, b) == IF a < b THEN -1 ELSE IF a > b THEN 1 ELSE 0

\* Ordering::then_with
Then(o, next) == IF o # 0 THEN o ELSE next

\* Ord for str: bytewise lexicographic, a proper prefix is smaller
RECURSIVE CmpStr(_, _)
CmpStr(a, b) ==
    IF Len(a) = 0 THEN (IF Len(b) = 0 THEN 0 ELSE -1)
    ELSE IF Len(b) = 0 THEN 1
    ELSE Then(CmpInt(CharCode(a[1]), CharCode(b[1])), CmpStr(Tail(a), Tail(b)))

RECURSIVE TrimZeros(_)
TrimZeros(s) == IF Len(s) >= 1 /\ s[1] = "0" THEN TrimZeros(Tail(s)) ELSE s

\* one pre-release identifier against another
CmpPreIdent(l, r) ==
    IF AllDigits(l) /\ AllDigits(r) THEN Then(CmpInt(Len(l), Len(r)), CmpStr(l, r))
    ELSE IF AllDigits(l) THEN -1
    ELSE IF AllDigits(r) THEN 1
    ELSE CmpStr(l, r)

\* one build identifier against another (leading zeros are allowed here)
CmpBuildIdent(l, r) ==
    IF AllDigits(l) /\ AllDigits(r)
    THEN Then(CmpInt(Len(TrimZeros(l)), Len(TrimZeros(r))),
              Then(CmpStr(TrimZeros(l), TrimZeros(r)), CmpInt(Len(l), Len(r))))
    ELSE IF AllDigits(l) THEN -1
    ELSE IF AllDigits(r) THEN 1
    ELSE CmpStr(l, r)

RECURSIVE CmpPreIdents(_, _)
CmpPreIdents(a, b) ==
    IF Len(a) = 0 THEN (IF Len(b) = 0 THEN 0 ELSE -1)
    ELSE IF Len(b) = 0 THEN 1
    ELSE Then(CmpPreIdent(a[1], b[1]), CmpPreIdents(Tail(a), Tail(b)))

RECURSIVE CmpBuildIdents(_, _)
CmpBuildIdents(a, b) ==
    IF Len(a) = 0 THEN (IF Len(b) = 0 THEN 0 ELSE -1)
    ELSE IF Len(b) = 0 THEN 1
    ELSE Then(CmpBuildIdent(a[1], b[1]), CmpBuildIdents(Tail(a), Tail(b)))

\* Ord for Prerelease: a release (empty) is greater than any pre-release
CmpPre(a, b) ==
    IF Len(a) = 0 /\ Len(b) = 0 THEN 0
    ELSE IF Len(a) = 0 THEN 1
    ELSE IF Len(b) = 0 THEN -1
    ELSE CmpPreIdents(a, b)

\* Ord for BuildMetadata: empty is smaller than any build metadata
CmpBuild(a, b) ==
    IF Len(a) = 0 /\ Len(b) = 0 THEN 0
    ELSE IF Len(a) = 0 THEN -1
    ELSE IF Len(b) = 0 THEN 1
    ELSE CmpBuildIdents(a, b)

\* Ord for semver::Version (derived: major, minor, patch, pre, build)
CmpVersion(a, b) ==
    Then(CmpInt(a.major, b.major),
    Then(CmpInt(a.minor, b.minor),
    Then(CmpInt(a.patch, b.patch),
    Then(CmpPre(a.pre, b.pre), CmpBuild(a.build, b.build)))))


(***************************************************************************)
(* The repository (git2::Repository), as the code reads it.                *)
(*   commits  the commit objects, in creation order: commit c is           *)
(*            commits[c], with its parent ids and its commit time          *)
(*   tagrefs  the references under refs/tags/, in the order                *)
(*            references_glob enumerates them; a tag's target is a commit  *)
(*            id, or 0 for an object that is not a commit (a tree), and    *)
(*            an annotated tag wraps its target in a tag object            *)
(*   refs     the branch and remote-tracking references                    *)
(*   head     HEAD                                                         *)
(*   remote   the remote named origin, with the default branch it reports  *)
(*   faults   whether the object database is damaged: reading an object    *)
(*            (peeling a tag, computing the merge-base, walking and        *)
(*            looking up commits) can then fail.  References live in the   *)
(*            reference database and are read as usual                     *)
(* and the locals of one call of get_commits_after_latest_tag.             *)
(***************************************************************************)
VARIABLES commits, tagrefs, refs, head, remote, faults,
          pc, latest_tag, tag_oid, base, merge_base, collected, result

repo == <<commits, tagrefs, refs, head, remote, faults>>

locals == <<latest_tag, tag_oid, base, merge_base, collected, result>>

(***************************************************************************)
(* The rest of the command-line tool (src/cli/mod.rs, llm.rs, git.rs).     *)
(*   commit_message, short_message   argument and result of                *)
(*                                   get_short_message                     *)
(*   hash, abbreviated               argument and result of                *)
(*                                   get_abbreviated_hash                  *)
(*   origin_url, org_repo            the URL of the remote origin and the  *)
(*                                   result of get_org_and_repo            *)
(*   args, loaded, conf              the parsed command line, what         *)
(*                                   Configuration::load returns, and the  *)
(*                                   configuration resolve_config builds   *)
(*                                   (Cli.args, Cli.conf)                  *)
(*   release                         Cli.release: the ids of its commits   *)
(*                                   and its assets                        *)
(*   run_pc, changelog, details, answer, run_result                        *)
(*                                   where Cli::run stands, the changelog  *)
(*                                   text, the rendered release details,   *)
(*                                   the user's answer, the result         *)
(*   llm_contacted                   whether a chat request was sent       *)
(*   github                          what GitHub holds: the release and    *)
(*                                   the assets uploaded to it             *)
(***************************************************************************)
VARIABLES commit_message, short_message, hash, abbreviated, origin_url, org_repo,
          args, loaded, conf,
          release, run_pc, changelog, details, answer, llm_contacted, github, run_result

helpers == <<commit_message, short_message, hash, abbreviated, origin_url, org_repo>>

config == <<args, loaded, conf>>

runner == <<release, run_pc, changelog, details, answer, llm_contacted, github, run_result>>

cli == <<helpers, config, runner>>

vars == <<commits, tagrefs, refs, head, remote, faults,
          pc, latest_tag, tag_oid, base, merge_base, collected, result,
          commit_message, short_message, hash, abbreviated, origin_url, org_repo,
          args, loaded, conf,
          release, run_pc, changelog, details, answer, llm_contacted, github, run_result>>

(***************************************************************************)
(* Names.  A reference name is the sequence of its path components.        *)
(***************************************************************************)
TagNames ==
    { <<"1", ".", "0", ".", "0">>,
      <<"1", ".", "1", ".", "0">>,
      <<"v", "1", ".", "1", ".", "0">>,
      <<"1", ".", "1", "0", ".", "0">>,
      <<"1", ".", "1", "0", ".", "0", "-", "r", "c">>,
      <<"1", ".", "0", ".", "0", "+", "a">>,
      <<"1", ".", "0", ".", "0", "+", "b">>,
      <<"v", "1", ".", "0", ".", "0">>,
      <<"l", "a", "t", "e", "s", "t">>,
      <<"v", "l", "a", "t", "e", "s", "t">>,
      <<"a", "l", "p", "h", "a">>,
      <<"v", "v", "2", ".", "0", ".", "0">>,
      <<"V", "2", ".", "0", ".", "0">> }

\* a branch short name that is not valid UTF-8
BadUtf8 == "\\xff"

HeadsPrefix == <<"refs", "heads">>

OriginPrefix == <<"refs", "remotes", "origin">>

OriginHeadName == <<"refs", "remotes", "origin", "HEAD">>

Heads(b) == HeadsPrefix \o <<b>>

Tracking(b) == OriginPrefix \o <<b>>

Branches == {"main", "dev"}

RefNames ==
    {Heads(b) : b \in Branches \cup {BadUtf8}}
        \cup {Tracking(b) : b \in Branches} \cup {OriginHeadName}

Absent == [kind |-> "absent"]

Direct(c) == [kind |-> "direct", oid |-> c]

Symbolic(n) == [kind |-> "symbolic", to |-> n]

\* Rust: &str from a name, None when the bytes are not UTF-8
Utf8(name) == \A i \in 1..Len(name) : name[i] # BadUtf8

\* Rust: s.strip_prefix(prefix) for a prefix ending in '/'
StripPrefix(name, prefix) ==
    IF Len(name) > Len(prefix) /\ SubSeq(name, 1, Len(prefix)) = prefix
    THEN Some(SubSeq(name, Len(prefix) + 1, Len(name)))
    ELSE None

Oids == 1..Len(commits)

\* repo.find_reference(name).ok()
FindReference(name) ==
    IF name \in DOMAIN refs /\ refs[name].kind # "absent"
    THEN Some([name |-> name, ref |-> refs[name]])
    ELSE None

\* Reference::target(): the oid of a direct reference only
Target(r) == IF r.ref.kind = "direct" THEN Some(r.ref.oid) ELSE None

\* Reference::symbolic_target(): the name a symbolic reference holds, as UTF-8
SymbolicTarget(r) ==
    IF r.ref.kind = "symbolic" /\ Utf8(r.ref.to) THEN Some(r.ref.to) ELSE None

\* repo.find_reference(name).ok().and_then(|r| r.target())
FindTarget(name) ==
    LET r == FindReference(name) IN
    IF r = None THEN None ELSE Target(r.val)

MaxNesting == 10

\* git_reference_lookup_resolved: follow symbolic references to a direct one
RECURSIVE LookupResolved(_, _)
LookupResolved(name, depth) ==
    LET r == FindReference(name) IN
    IF r = None \/ depth = 0 THEN None
    ELSE IF r.val.ref.kind = "direct" THEN r
    ELSE LookupResolved(r.val.ref.to, depth - 1)

\* repo.head(): HEAD itself when detached, else the reference it resolves to
RepoHead ==
    IF head.kind = "direct" THEN Some([name |-> <<"HEAD">>, ref |-> head])
    ELSE LookupResolved(head.to, MaxNesting)

(***************************************************************************)
(* The commit graph.                                                       *)
(***************************************************************************)
Parents(c) == commits[c].parents

CommitTime(c) == commits[c].time

\* the commits reachable from c through parent links, c included
RECURSIVE Ancestors(_)
Ancestors(c) == {c} \cup UNION {Ancestors(p) : p \in Parents(c)}

CommonAncestors(one, two) == Ancestors(one) \cap Ancestors(two)

\* the best common ancestors: common ancestors that are not an ancestor of
\* another common ancestor
MergeBases(one, two) ==
    {c \in CommonAncestors(one, two) :
        \A d \in CommonAncestors(one, two) \ {c} : c \notin Ancestors(d)}

\* repo.merge_base(one, two).ok(): one of the best common ancestors, or None
\* when libgit2 reports GIT_ENOTFOUND
MergeBaseResults(one, two) ==
    IF MergeBases(one, two) = {} THEN {None}
    ELSE {Some(c) : c \in MergeBases(one, two)}

(***************************************************************************)
(* git2::Revwalk.  hide marks a commit and, through mark_parents_          *)
(* uninteresting, all its ancestors; with a sorting set the walk is        *)
(* limited: limit_list collects every commit reachable from the pushed     *)
(* commit that is not uninteresting, and Sort::TIME yields them by commit  *)
(* time, latest first, commits of equal time in an order the priority      *)
(* queue decides.                                                          *)
(***************************************************************************)
RECURSIVE MarkUninteresting(_, _)
MarkUninteresting(todo, marked) ==
    IF todo = {} THEN marked
    ELSE LET c == CHOOSE x \in todo : TRUE
             fresh == Parents(c) \ marked
         IN  MarkUninteresting((todo \ {c}) \cup fresh, marked \cup fresh)

\* variant: hide marks the merge-base only, not its ancestors
Hidden_OnlyCommit(mb) == IF mb = None THEN {} ELSE {mb.val}

\* variant: hide marks the ancestors of the merge-base, not the merge-base
Hidden_AncestorsOnly(mb) ==
    IF mb = None THEN {} ELSE MarkUninteresting({mb.val}, {})

\* revwalk.hide(mb) when a merge-base was found
Hidden(mb) == IF mb = None THEN {} ELSE MarkUninteresting({mb.val}, {mb.val})

RECURSIVE LimitList(_, _, _, _)
LimitList(todo, seen, uninteresting, out) ==
    IF todo = {} THEN out
    ELSE LET c == CHOOSE x \in todo : TRUE
             fresh == Parents(c) \ seen
         IN  LimitList((todo \ {c}) \cup fresh, seen \cup fresh, uninteresting,
                       IF c \in uninteresting THEN out ELSE out \cup {c})

\* variant: the merge-base is never hidden
WalkSet_NoHide(start, mb) == LimitList({start}, {start}, {}, {})

\* variant: the pushed commit is yielded even when it is hidden
WalkSet_StartAlwaysYielded(start, mb) ==
    LimitList({start}, {start}, Hidden(mb), {}) \cup {start}

\* the commits the walk yields after push(start) and hide(mb)
WalkSet(start, mb) == LimitList({start}, {start}, Hidden(mb), {})

\* variant: the walk yields children before parents (topological order),
\* the later-created commit first
RECURSIVE TimeOrders_Topological(_)
TimeOrders_Topological(S) ==
    IF S = {} THEN {<<>>}
    ELSE LET c == CHOOSE x \in S : \A d \in S : d <= x
         IN  {<<c>> \o w : w \in TimeOrders_Topological(S \ {c})}

\* the orders in which a priority queue on commit time can yield S
RECURSIVE TimeOrders(_)
TimeOrders(S) ==
    IF S = {} THEN {<<>>}
    ELSE LET latest == {c \in S : \A d \in S : CommitTime(d) <= CommitTime(c)}
         IN  UNION {{<<c>> \o w : w \in TimeOrders(S \ {c})} : c \in latest}

(***************************************************************************)
(* Tag selection: git.rs lines 230-261.                                    *)
(***************************************************************************)
\* reference.shorthand() of refs/tags/<name>
Shorthand(t) == t.name

\* strip the optional 'v' and parse, tabulated once for every tag name
ParsedNames == [n \in TagNames |-> ParseVersion(StripV(n))]

\* the version a tag reference contributes to `tags`, None when it is skipped
TagVersion(t) == ParsedNames[Shorthand(t)]

\* variant: the comparison is reversed (the minimum is kept)
RECURSIVE MaxByVersion_Min(_, _, _)
MaxByVersion_Min(trefs, i, best) ==
    IF i > Len(trefs) THEN best
    ELSE IF TagVersion(trefs[i]) = None THEN MaxByVersion_Min(trefs, i + 1, best)
    ELSE IF best = 0 THEN MaxByVersion_Min(trefs, i + 1, i)
    ELSE IF CmpVersion(TagVersion(trefs[best]).val, TagVersion(trefs[i]).val) = -1
         THEN MaxByVersion_Min(trefs, i + 1, best)
    ELSE MaxByVersion_Min(trefs, i + 1, i)

\* variant: of equal versions the first is kept
RECURSIVE MaxByVersion_KeepFirst(_, _, _)
MaxByVersion_KeepFirst(trefs, i, best) ==
    IF i > Len(trefs) THEN best
    ELSE IF TagVersion(trefs[i]) = None THEN MaxByVersion_KeepFirst(trefs, i + 1, best)
    ELSE IF best = 0 THEN MaxByVersion_KeepFirst(trefs, i + 1, i)
    ELSE IF CmpVersion(TagVersion(trefs[best]).val, TagVersion(trefs[i]).val) >= 0
         THEN MaxByVersion_KeepFirst(trefs, i + 1, best)
    ELSE MaxByVersion_KeepFirst(trefs, i + 1, i)

\* Iterator::max_by over the (version, reference) pairs pushed for trefs:
\* reduce(|x, y| match compare(x, y) { Greater => x, _ => y }); 0 when empty
RECURSIVE MaxByVersion(_, _, _)
MaxByVersion(trefs, i, best) ==
    IF i > Len(trefs) THEN best
    ELSE IF TagVersion(trefs[i]) = None THEN MaxByVersion(trefs, i + 1, best)
    ELSE IF best = 0 THEN MaxByVersion(trefs, i + 1, i)
    ELSE IF CmpVersion(TagVersion(trefs[best]).val, TagVersion(trefs[i]).val) = 1
         THEN MaxByVersion(trefs, i + 1, best)
    ELSE MaxByVersion(trefs, i + 1, i)

\* variant: with no semver tag, fall back to the first tag
LatestTag_FallbackFirst(trefs) ==
    IF MaxByVersion(trefs, 1, 0) = 0 /\ Len(trefs) > 0 THEN 1
    ELSE MaxByVersion(trefs, 1, 0)

\* variant: "latest" is read as the semver tag on the most recent commit
LatestTag_ByCommitTime(trefs) ==
    LET parsing == {i \in 1..Len(trefs) : TagVersion(trefs[i]) # None}
        when(i) == IF trefs[i].target.obj = 0 THEN 0
                   ELSE CommitTime(trefs[i].target.obj)
    IN  IF parsing = {} THEN 0
        ELSE CHOOSE i \in parsing : \A j \in parsing : when(j) <= when(i)

\* the index in trefs of the latest semver tag, 0 when no tag parses
LatestTag(trefs) == MaxByVersion(trefs, 1, 0)

\* latest_tag_ref.peel_to_commit(): through a tag object if annotated
PeelToCommit(t) == IF t.obj = 0 THEN None ELSE Some(t.obj)

(***************************************************************************)
(* Default-branch resolution: git.rs lines 61-186.                         *)
(***************************************************************************)
Pair(name, oid) == Some([name |-> name, oid |-> oid])

\* variant: the remote-tracking branch is preferred over the local one
ResolveFromOriginHead_RemoteFirst ==
    LET origin_head == FindReference(OriginHeadName) IN
    IF origin_head = None THEN None
    ELSE LET sym == SymbolicTarget(origin_head.val) IN
    IF sym = None THEN None
    ELSE LET stripped == StripPrefix(sym.val, OriginPrefix)
             suffix == IF stripped = None THEN sym.val ELSE stripped.val
             local_heads == HeadsPrefix \o suffix
             local_oid == FindTarget(local_heads)
             remote_oid == FindTarget(sym.val)
         IN  IF remote_oid # None THEN Pair(sym.val, remote_oid.val)
             ELSE IF local_oid # None THEN Pair(local_heads, local_oid.val)
             ELSE None

ResolveFromOriginHead ==
    LET origin_head == FindReference(OriginHeadName) IN
    IF origin_head = None THEN None
    ELSE LET sym == SymbolicTarget(origin_head.val) IN
    IF sym = None THEN None
    ELSE LET stripped == StripPrefix(sym.val, OriginPrefix)
             suffix == IF stripped = None THEN sym.val ELSE stripped.val
             local_heads == HeadsPrefix \o suffix
             local_oid == FindTarget(local_heads)
             remote_oid == FindTarget(sym.val)
         IN  IF local_oid # None THEN Pair(local_heads, local_oid.val)
             ELSE IF remote_oid # None THEN Pair(sym.val, remote_oid.val)
             ELSE None

\* variant: the remote-tracking name is tried before the advertised name
ResolveFromRemoteDefault_TrackingFirst ==
    IF ~remote.exists THEN None
    ELSE IF remote.default = None THEN None
    ELSE IF ~Utf8(remote.default.val) THEN None
    ELSE LET name == remote.default.val
             local_oid == FindTarget(name)
             suffix == StripPrefix(name, HeadsPrefix)
             remote_oid == IF suffix = None THEN None
                           ELSE FindTarget(OriginPrefix \o suffix.val)
         IN  IF remote_oid # None THEN Pair(OriginPrefix \o suffix.val, remote_oid.val)
             ELSE IF local_oid # None THEN Pair(name, local_oid.val)
             ELSE None

ResolveFromRemoteDefault ==
    IF ~remote.exists THEN None
    ELSE IF remote.default = None THEN None
    ELSE IF ~Utf8(remote.default.val) THEN None
    ELSE LET name == remote.default.val
             local_oid == FindTarget(name)
             suffix == StripPrefix(name, HeadsPrefix)
         IN  IF local_oid # None THEN Pair(name, local_oid.val)
             ELSE IF suffix = None THEN None
             ELSE LET remote_tracking == OriginPrefix \o suffix.val
                      remote_oid == FindTarget(remote_tracking)
                  IN  IF remote_oid # None
                      THEN Pair(remote_tracking, remote_oid.val)
                      ELSE None

(***************************************************************************)
(* Results of get_commits_after_latest_tag.                                *)
(***************************************************************************)
NoResult == [status |-> "none", tag |-> <<>>, commits |-> <<>>, err |-> "", about |-> <<>>]

Ok(tag, cs) == [status |-> "ok", tag |-> tag, commits |-> cs, err |-> "", about |-> <<>>]

Err(msg, about) == [status |-> "err", tag |-> <<>>, commits |-> <<>>, err |-> msg, about |-> about]

\* the rest of the tool before anything is called
HelpersIdle ==
    /\ commit_message = <<>>
    /\ short_message = None
    /\ hash = <<>>
    /\ abbreviated = None
    /\ origin_url = None
    /\ org_repo = None

ConfigIdle ==
    /\ args = None
    /\ loaded = None
    /\ conf = None

RunnerIdle ==
    /\ release = None
    /\ run_pc = "idle"
    /\ changelog = None
    /\ details = None
    /\ answer = None
    /\ llm_contacted = FALSE
    /\ github = [created |-> FALSE, uploaded |-> <<>>]
    /\ run_result = None

Init ==
    /\ commits = <<>>
    /\ tagrefs = <<>>
    /\ refs = [n \in RefNames |-> Absent]
    /\ head = Symbolic(Heads("main"))
    /\ remote = [exists |-> FALSE, default |-> None]
    /\ faults = FALSE
    /\ pc = "idle"
    /\ latest_tag = 0
    /\ tag_oid = 0
    /\ base = None
    /\ merge_base = None
    /\ collected = <<>>
    /\ result = NoResult
    /\ HelpersIdle /\ ConfigIdle /\ RunnerIdle

(***************************************************************************)
(* get_commits_after_latest_tag, one action per step of the call.  The     *)
(* repository is not touched while a call runs.                            *)
(***************************************************************************)
\* variant: the default base is resolved before the tags are scanned
SelectTag_BaseFirst ==
    /\ pc = "idle"
    /\ LET sel == LatestTag(tagrefs) IN
       IF ResolveFromOriginHead = None /\ ResolveFromRemoteDefault = None
            /\ RepoHead = None
       THEN /\ result' = Err("repository has no HEAD", <<>>)
            /\ pc' = "done"
            /\ UNCHANGED latest_tag
       ELSE IF sel = 0
       THEN /\ result' = Err("no semver tags found", <<>>)
            /\ pc' = "done"
            /\ UNCHANGED latest_tag
       ELSE /\ latest_tag' = sel
            /\ pc' = "peel"
            /\ UNCHANGED result
    /\ UNCHANGED <<cli, repo, tag_oid, base, merge_base, collected>>

\* steps 1: collect the semver tags and take the maximum (lines 230-261)
SelectTag ==
    /\ pc = "idle"
    /\ LET sel == LatestTag(tagrefs) IN
       IF sel = 0
       THEN /\ result' = Err("no semver tags found", <<>>)
            /\ pc' = "done"
            /\ UNCHANGED latest_tag
       ELSE /\ latest_tag' = sel
            /\ pc' = "peel"
            /\ UNCHANGED result
    /\ UNCHANGED <<cli, repo, tag_oid, base, merge_base, collected>>

\* the outcomes of reading an object: what the object database holds, or a
\* failure when it is damaged
Read(v) == IF faults THEN {v, None} ELSE {v}

\* variant: when the latest tag does not peel, another semver tag that
\* peels is taken
PeelTag_FallsBack ==
    /\ pc = "peel"
    /\ \E c \in Read(PeelToCommit(tagrefs[latest_tag].target)) :
       LET others == {i \in 1..Len(tagrefs) :
                        /\ TagVersion(tagrefs[i]) # None
                        /\ PeelToCommit(tagrefs[i].target) # None}
       IN  IF c = None /\ others = {}
           THEN /\ result' = Err("could not peel tag", tagrefs[latest_tag].name)
                /\ pc' = "done"
                /\ UNCHANGED <<latest_tag, tag_oid>>
           ELSE IF c = None
           THEN /\ latest_tag' = CHOOSE i \in others : TRUE
                /\ tag_oid' = tagrefs[latest_tag'].target.obj
                /\ pc' = "origin_head"
                /\ UNCHANGED result
           ELSE /\ tag_oid' = c.val
                /\ pc' = "origin_head"
                /\ UNCHANGED <<latest_tag, result>>
    /\ UNCHANGED <<cli, repo, base, merge_base, collected>>

\* step 2: peel the tag to its commit (lines 266-273)
PeelTag ==
    /\ pc = "peel"
    /\ \E c \in Read(PeelToCommit(tagrefs[latest_tag].target)) :
       IF c = None
       THEN /\ result' = Err("could not peel tag", tagrefs[latest_tag].name)
            /\ pc' = "done"
            /\ UNCHANGED tag_oid
       ELSE /\ tag_oid' = c.val
            /\ pc' = "origin_head"
            /\ UNCHANGED result
    /\ UNCHANGED <<cli, repo, latest_tag, base, merge_base, collected>>

\* variant: strategy 1 is not consulted
OriginHead_Skipped ==
    /\ pc = "origin_head"
    /\ pc' = "remote_default"
    /\ UNCHANGED <<cli, repo, latest_tag, tag_oid, base, merge_base, collected, result>>

\* step 3, resolve_default_base: strategy 1 (lines 172-174)
OriginHead ==
    /\ pc = "origin_head"
    /\ IF ResolveFromOriginHead # None
       THEN base' = ResolveFromOriginHead /\ pc' = "walk"
       ELSE pc' = "remote_default" /\ UNCHANGED base
    /\ UNCHANGED <<cli, repo, latest_tag, tag_oid, merge_base, collected, result>>

\* variant: a missing remote is returned as an error
RemoteDefault_ErrorsWithoutRemote ==
    /\ pc = "remote_default"
    /\ IF ~remote.exists
       THEN /\ result' = Err("Could not find remote 'origin'", <<>>)
            /\ pc' = "done"
            /\ UNCHANGED base
       ELSE IF ResolveFromRemoteDefault # None
       THEN base' = ResolveFromRemoteDefault /\ pc' = "walk" /\ UNCHANGED result
       ELSE pc' = "head" /\ UNCHANGED <<base, result>>
    /\ UNCHANGED <<cli, repo, latest_tag, tag_oid, merge_base, collected>>

\* variant: strategy 2 records the remote's default branch in origin/HEAD,
\* as `git remote set-head origin --auto` does
RemoteDefault_UpdatesOriginHead ==
    /\ pc = "remote_default"
    /\ IF ResolveFromRemoteDefault # None
       THEN /\ base' = ResolveFromRemoteDefault
            /\ pc' = "walk"
            /\ refs' = [refs EXCEPT ![OriginHeadName] = Symbolic(Tracking("main"))]
       ELSE pc' = "head" /\ UNCHANGED <<base, refs>>
    /\ UNCHANGED <<cli, commits, tagrefs, head, remote, faults,
                   latest_tag, tag_oid, merge_base, collected, result>>

\* resolve_default_base: strategy 2 (lines 176-178)
RemoteDefault ==
    /\ pc = "remote_default"
    /\ IF ResolveFromRemoteDefault # None
       THEN base' = ResolveFromRemoteDefault /\ pc' = "walk"
       ELSE pc' = "head" /\ UNCHANGED base
    /\ UNCHANGED <<cli, repo, latest_tag, tag_oid, merge_base, collected, result>>

\* variant: the base is always named HEAD
HeadFallback_NamedHead ==
    /\ pc = "head"
    /\ LET h == RepoHead IN
       IF h = None
       THEN /\ result' = Err("repository has no HEAD", <<>>)
            /\ pc' = "done"
            /\ UNCHANGED base
       ELSE IF Target(h.val) = None
       THEN /\ result' = Err("HEAD has no target", <<>>)
            /\ pc' = "done"
            /\ UNCHANGED base
       ELSE /\ base' = Pair(<<"HEAD">>, Target(h.val).val)
            /\ pc' = "walk"
            /\ UNCHANGED result
    /\ UNCHANGED <<cli, repo, latest_tag, tag_oid, merge_base, collected>>

\* resolve_default_base: the HEAD fallback (lines 180-185)
HeadFallback ==
    /\ pc = "head"
    /\ LET h == RepoHead IN
       IF h = None
       THEN /\ result' = Err("repository has no HEAD", <<>>)
            /\ pc' = "done"
            /\ UNCHANGED base
       ELSE IF Target(h.val) = None
       THEN /\ result' = Err("HEAD has no target", <<>>)
            /\ pc' = "done"
            /\ UNCHANGED base
       ELSE /\ base' = Pair(IF Utf8(h.val.name) THEN h.val.name ELSE <<"HEAD">>,
                            Target(h.val).val)
            /\ pc' = "walk"
            /\ UNCHANGED result
    /\ UNCHANGED <<cli, repo, latest_tag, tag_oid, merge_base, collected>>

\* how the walk over w ends: [err |-> "", at |-> Len(w)] when every commit
\* was collected, else the error of the failing call and the number of
\* commits collected before it.  revwalk() and set_sorting() read no object.
WalkEnds(mb, w) ==
    {[err |-> "", at |-> Len(w)]}
        \cup (IF faults
              THEN {[err |-> "could not push base OID", at |-> 0]}
                    \cup (IF mb = None THEN {}
                          ELSE {[err |-> "could not hide merge-base", at |-> 0]})
                    \cup {[err |-> "error iterating through commits", at |-> k] :
                            k \in 0..Len(w)}
                    \cup {[err |-> "could not look up commit during revwalk", at |-> k] :
                            k \in 0..(Len(w) - 1)}
              ELSE {})

\* variant: a failing walk returns what it collected so far
Walk_PartialOnError ==
    /\ pc = "walk"
    /\ \E m \in MergeBaseResults(tag_oid, base.val.oid) :
       \E mb \in Read(m) :
       \E w \in TimeOrders(WalkSet(base.val.oid, mb)) :
       \E e \in WalkEnds(mb, w) :
          /\ merge_base' = mb
          /\ collected' = SubSeq(w, 1, e.at)
          /\ result' = Ok(tagrefs[latest_tag].name, SubSeq(w, 1, e.at))
    /\ pc' = "done"
    /\ UNCHANGED <<cli, repo, latest_tag, tag_oid, base>>

\* steps 4-6: merge-base, revwalk and collection (lines 290-329); `collected`
\* is the vector `commits`, dropped with the other locals when a `?` returns
Walk ==
    /\ pc = "walk"
    /\ \E m \in MergeBaseResults(tag_oid, base.val.oid) :
       \E mb \in Read(m) :
       \E w \in TimeOrders(WalkSet(base.val.oid, mb)) :
       \E e \in WalkEnds(mb, w) :
          /\ merge_base' = mb
          /\ collected' = SubSeq(w, 1, e.at)
          /\ result' = IF e.err = "" THEN Ok(tagrefs[latest_tag].name, w)
                        ELSE Err(e.err, <<>>)
    /\ pc' = "done"
    /\ UNCHANGED <<cli, repo, latest_tag, tag_oid, base>>

\* the caller takes the result; the next call starts afresh
Return ==
    /\ pc = "done"
    /\ pc' = "idle"
    /\ latest_tag' = 0
    /\ tag_oid' = 0
    /\ base' = None
    /\ merge_base' = None
    /\ collected' = <<>>
    /\ result' = NoResult
    /\ UNCHANGED <<cli, repo>>

Program ==
    \/ SelectTag
    \/ PeelTag
    \/ OriginHead
    \/ RemoteDefault
    \/ HeadFallback
    \/ Walk
    \/ Return

(***************************************************************************)
(* The environment: what builds the repository between calls (the tests'   *)
(* helpers and git itself).                                                *)
(***************************************************************************)
\* a new commit object with parents ps and commit time t; no reference moves
CommitObject(ps, t) ==
    /\ pc = "idle"
    /\ Len(commits) < MaxCommits
    /\ ps \subseteq Oids
    /\ Cardinality(ps) <= 2
    /\ commits' = Append(commits, [parents |-> ps, time |-> t])
    /\ UNCHANGED <<tagrefs, refs, head, remote, faults, pc, locals, cli>>

\* the time of the latest commit made so far
LastTime == IF commits = <<>> THEN 0 ELSE commits[Len(commits)].time

\* tests::commit_file: a commit on top of HEAD (a root commit when HEAD is
\* unborn), made at time t, that moves what HEAD points at
CommitFile(t) ==
    /\ pc = "idle"
    /\ Len(commits) < MaxCommits
    /\ LET h == RepoHead
           ps == IF h = None THEN {} ELSE {h.val.ref.oid}
           c == Len(commits) + 1
       IN  /\ commits' = Append(commits, [parents |-> ps, time |-> t])
           /\ IF head.kind = "direct"
              THEN head' = Direct(c) /\ UNCHANGED refs
              ELSE /\ refs' = [refs EXCEPT ![IF h = None THEN head.to ELSE h.val.name] = Direct(c)]
                   /\ UNCHANGED head
    /\ UNCHANGED <<tagrefs, remote, faults, pc, locals, cli>>

InsertAt(s, pos, e) == SubSeq(s, 1, pos - 1) \o <<e>> \o SubSeq(s, pos, Len(s))

RemoveAt(s, i) == SubSeq(s, 1, i - 1) \o SubSeq(s, i + 1, Len(s))

\* repo.tag / repo.tag_lightweight: a new reference refs/tags/<name>, which
\* the enumeration yields at position pos
TagCreate(name, target, pos) ==
    /\ pc = "idle"
    /\ Len(tagrefs) < MaxTags
    /\ \A i \in 1..Len(tagrefs) : tagrefs[i].name # name
    /\ target.obj \in Oids \cup {0}
    /\ pos \in 1..(Len(tagrefs) + 1)
    /\ tagrefs' = InsertAt(tagrefs, pos, [name |-> name, target |-> target])
    /\ UNCHANGED <<commits, refs, head, remote, faults, pc, locals, cli>>

\* where the enumeration yields a new loose reference: libgit2 lists loose
\* references sorted by name
SortedPos(name) ==
    1 + Cardinality({i \in 1..Len(tagrefs) : CmpStr(tagrefs[i].name, name) < 0})

\* git tag -d
TagDelete(i) ==
    /\ pc = "idle"
    /\ i \in 1..Len(tagrefs)
    /\ tagrefs' = RemoveAt(tagrefs, i)
    /\ UNCHANGED <<commits, refs, head, remote, faults, pc, locals, cli>>

\* create, move or delete a branch or remote-tracking reference
SetReference(name, val) ==
    /\ pc = "idle"
    /\ name \in RefNames
    /\ val.kind = "direct" => val.oid \in Oids
    /\ refs[name] # val
    /\ refs' = [refs EXCEPT ![name] = val]
    /\ UNCHANGED <<commits, tagrefs, head, remote, faults, pc, locals, cli>>

\* check out a branch (HEAD symbolic) or a commit (HEAD detached)
SetHead(val) ==
    /\ pc = "idle"
    /\ val.kind = "direct" => val.oid \in Oids
    /\ head # val
    /\ head' = val
    /\ UNCHANGED <<commits, tagrefs, refs, remote, faults, pc, locals, cli>>

\* the object database gets damaged, or is repaired
SetFaults(val) ==
    /\ pc = "idle"
    /\ faults # val
    /\ faults' = val
    /\ UNCHANGED <<commits, tagrefs, refs, head, remote, pc, locals, cli>>

\* add or remove the remote origin, or change the default branch it reports
SetRemote(val) ==
    /\ pc = "idle"
    /\ remote # val
    /\ remote' = val
    /\ UNCHANGED <<commits, tagrefs, refs, head, faults, pc, locals, cli>>

Lightweight(obj) == [annotated |-> FALSE, obj |-> obj]

Annotated(obj) == [annotated |-> TRUE, obj |-> obj]

V100 == <<"1", ".", "0", ".", "0">>

V110 == <<"1", ".", "1", ".", "0">>

V1100 == <<"1", ".", "1", "0", ".", "0">>

(***************************************************************************)
(* Spec: arbitrary commit graphs (merges, unrelated roots), one semver     *)
(* tag placed anywhere, HEAD detached anywhere.  Commit times follow the   *)
(* creation order.                                                         *)
(***************************************************************************)
Next ==
    \/ Program
    \/ \E ps \in SUBSET Oids : CommitObject(ps, Len(commits) + 1)
    \/ \E c \in Oids : TagCreate(V100, Lightweight(c), Len(tagrefs) + 1)
    \/ \E i \in 1..Len(tagrefs) : TagDelete(i)
    \/ \E c \in Oids : SetHead(Direct(c))

Spec == Init /\ [][Next]_vars

(***************************************************************************)
(* SpecSkew: arbitrary commit graphs whose commit times are unrelated to   *)
(* the parent links (clocks that run backwards, commits made in the same   *)
(* second), one semver tag placed anywhere, HEAD detached anywhere.        *)
(***************************************************************************)
NextSkew ==
    \/ Program
    \/ \E ps \in SUBSET Oids, t \in {1, 2} :
          Len(commits) < MaxCommits - 1 /\ CommitObject(ps, t)
    \/ \E c \in Oids : TagCreate(V100, Lightweight(c), Len(tagrefs) + 1)
    \/ \E i \in 1..Len(tagrefs) : TagDelete(i)
    \/ \E c \in Oids : SetHead(Direct(c))

SpecSkew == Init /\ [][NextSkew]_vars

(***************************************************************************)
(* SpecLinear: the histories the tests build: commit_file on one branch,   *)
(* annotated semver tags on any of its commits.                            *)
(***************************************************************************)
LinearTagNames == {V100, V110, V1100}

NextLinear ==
    \/ Program
    \/ \E t \in {LastTime, LastTime + 1} : CommitFile(t)
    \/ \E n \in LinearTagNames, c \in Oids : TagCreate(n, Annotated(c), SortedPos(n))
    \/ \E i \in 1..Len(tagrefs) : TagDelete(i)

SpecLinear == Init /\ [][NextLinear]_vars

(***************************************************************************)
(* SpecTags: tags of every shape, in every enumeration order, on a         *)
(* two-commit history.                                                     *)
(***************************************************************************)
TwoCommits == <<[parents |-> {}, time |-> 1], [parents |-> {1}, time |-> 2]>>

InitTags ==
    /\ commits = TwoCommits
    /\ tagrefs = <<>>
    /\ refs = [n \in RefNames |-> IF n = Heads("main") THEN Direct(2) ELSE Absent]
    /\ head = Symbolic(Heads("main"))
    /\ remote = [exists |-> FALSE, default |-> None]
    /\ faults = FALSE
    /\ pc = "idle"
    /\ latest_tag = 0
    /\ tag_oid = 0
    /\ base = None
    /\ merge_base = None
    /\ collected = <<>>
    /\ result = NoResult
    /\ HelpersIdle /\ ConfigIdle /\ RunnerIdle

TagTargets == {Lightweight(1), Annotated(2)}

NextTags ==
    \/ Program
    \/ \E n \in TagNames, t \in TagTargets, pos \in 1..(Len(tagrefs) + 1) :
          TagCreate(n, t, pos)
    \/ \E i \in 1..Len(tagrefs) : TagDelete(i)

SpecTags == InitTags /\ [][NextTags]_vars

(***************************************************************************)
(* SpecBase: every combination of origin/HEAD, local and remote-tracking   *)
(* branches, remote and HEAD, on a two-commit history tagged 1.0.0.        *)
(***************************************************************************)
InitBase ==
    /\ commits = TwoCommits
    /\ tagrefs = <<[name |-> V100, target |-> Lightweight(1)]>>
    /\ refs = [n \in RefNames |-> Absent]
    /\ head = Symbolic(Heads("main"))
    /\ remote = [exists |-> FALSE, default |-> None]
    /\ faults = FALSE
    /\ pc = "idle"
    /\ latest_tag = 0
    /\ tag_oid = 0
    /\ base = None
    /\ merge_base = None
    /\ collected = <<>>
    /\ result = NoResult
    /\ HelpersIdle /\ ConfigIdle /\ RunnerIdle

RefValues(n) ==
    IF n = OriginHeadName
    THEN {Absent, Direct(1), Symbolic(Tracking("main")), Symbolic(Tracking("dev")),
          Symbolic(Heads("main")), Symbolic(Heads(BadUtf8))}
    ELSE IF n = Heads(BadUtf8) THEN {Absent, Direct(2)}
    ELSE IF n \in {Heads(b) : b \in Branches}
    THEN {Absent, Direct(1), Symbolic(Tracking(n[3]))}
    ELSE {Absent, Direct(1), Direct(2)}

HeadValues ==
    {Symbolic(Heads("main")), Symbolic(Heads("dev")), Symbolic(Heads(BadUtf8)),
     Direct(1), Direct(2)}

RemoteValues ==
    {[exists |-> FALSE, default |-> None], [exists |-> TRUE, default |-> None]}
        \cup {[exists |-> TRUE, default |-> Some(n)] :
                n \in {Heads("main"), Heads("dev"), Tracking("main"), Heads(BadUtf8)}}

NextBase ==
    \/ Program
    \/ \E n \in RefNames : \E v \in RefValues(n) : SetReference(n, v)
    \/ \E v \in HeadValues : SetHead(v)
    \/ \E v \in RemoteValues : SetRemote(v)

SpecBase == InitBase /\ [][NextBase]_vars

(***************************************************************************)
(* SpecSteps: what each step of the call can meet: tags that parse or not, *)
(* on an old commit, on the tip of the branch, on an unrelated commit or   *)
(* on an object that is not a commit; HEAD on a branch, on an unborn       *)
(* branch or detached; an object database that is sound or damaged.        *)
(***************************************************************************)
ThreeCommits ==
    <<[parents |-> {}, time |-> 1], [parents |-> {1}, time |-> 2],
      [parents |-> {}, time |-> 3]>>

InitSteps ==
    /\ commits = ThreeCommits
    /\ tagrefs = <<>>
    /\ refs = [n \in RefNames |-> IF n = Heads("main") THEN Direct(2) ELSE Absent]
    /\ head = Symbolic(Heads("main"))
    /\ remote = [exists |-> FALSE, default |-> None]
    /\ faults = FALSE
    /\ pc = "idle"
    /\ latest_tag = 0
    /\ tag_oid = 0
    /\ base = None
    /\ merge_base = None
    /\ collected = <<>>
    /\ result = NoResult
    /\ HelpersIdle /\ ConfigIdle /\ RunnerIdle

StepTagNames == {V100, V110, <<"l", "a", "t", "e", "s", "t">>}

StepTargets == {Lightweight(1), Annotated(2), Lightweight(3), Lightweight(0)}

StepHeads == {Symbolic(Heads("main")), Symbolic(Heads("dev")), Direct(3)}

NextSteps ==
    \/ Program
    \/ \E n \in StepTagNames, t \in StepTargets, pos \in 1..(Len(tagrefs) + 1) :
          TagCreate(n, t, pos)
    \/ \E i \in 1..Len(tagrefs) : TagDelete(i)
    \/ \E v \in StepHeads : SetHead(v)
    \/ \E v \in BOOLEAN : SetFaults(v)

SpecSteps == InitSteps /\ [][NextSteps]_vars

(***************************************************************************)
(* Properties.                                                             *)
(***************************************************************************)
Elems(s) == {s[i] : i \in 1..Len(s)}

NoDup(s) == \A i, j \in 1..Len(s) : i # j => s[i] # s[j]

\* the positions of the tags that parse as a semantic version
Parsing(trefs) == {i \in 1..Len(trefs) : TagVersion(trefs[i]) # None}

ParsesAsSemver(t) == TagVersion(t) # None

\* trefs without its non-parsing tags
OnlyParsing(trefs) == SelectSeq(trefs, ParsesAsSemver)

\* semver precedence (build metadata does not take part)
SemverLeq(a, b) ==
    CmpVersion([a EXCEPT !.build = <<>>], [b EXCEPT !.build = <<>>]) <= 0

VersionAt(i) == TagVersion(tagrefs[i]).val

\* newest first: commit times never increase along w
TimeDescending(w) ==
    \A i, j \in 1..Len(w) : i < j => CommitTime(w[i]) >= CommitTime(w[j])

C2_CommitsAreBaseMinusMergeBase ==
    (pc = "done" /\ base # None) =>
        /\ result.status = "ok"
        /\ NoDup(result.commits)
        /\ (merge_base = None) = (CommonAncestors(tag_oid, base.val.oid) = {})
        /\ merge_base # None => merge_base.val \in MergeBases(tag_oid, base.val.oid)
        /\ Elems(result.commits) =
              Ancestors(base.val.oid)
                  \ (IF merge_base = None THEN {} ELSE Ancestors(merge_base.val))

\* C2 witness: disjoint histories: a successful call without a merge-base
\* that returns the whole history of the base
C2_Witness ==
    /\ pc = "done"
    /\ result.status = "ok"
    /\ merge_base = None
    /\ Len(result.commits) >= 2
    /\ Elems(result.commits) = Ancestors(base.val.oid)

\* C3: whenever tag commit and base share a common ancestor, the commits
\* returned are exactly those reachable from the base that are not ancestors
\* of (or equal to) the tag commit.
C3_ExcludesEveryTagAncestor ==
    (pc = "done" /\ result.status = "ok"
        /\ CommonAncestors(tag_oid, base.val.oid) # {}) =>
        Elems(result.commits) = Ancestors(base.val.oid) \ Ancestors(tag_oid)

IsLinear == \A c \in Oids : Parents(c) = IF c = 1 THEN {} ELSE {c - 1}

\* the position of a tag of maximum version
MaxTagIndex ==
    CHOOSE i \in Parsing(tagrefs) :
        \A j \in Parsing(tagrefs) : SemverLeq(VersionAt(j), VersionAt(i))

\* C4: in a linear history C1..Cn with the base at the tip and the maximum
\* semver tag on Ck, the call returns that tag with exactly Ck+1..Cn, newest
\* first (Cn, Cn-1, .., Ck+1 when the commit times strictly increase).
C4_LinearHistoryAfterMaxTag ==
    (pc = "done" /\ IsLinear /\ Parsing(tagrefs) # {}) =>
        LET max == tagrefs[MaxTagIndex]
            k == max.target.obj
            n == Len(commits)
            w == result.commits
        IN  /\ result.status = "ok"
            /\ result.tag = max.name
            /\ base.val.oid = n
            /\ Len(w) = n - k
            /\ Elems(w) = (k + 1)..n
            /\ TimeDescending(w)
            /\ (\A c \in (k + 2)..n : CommitTime(c - 1) < CommitTime(c))
                  => \A i \in 1..Len(w) : w[i] = n + 1 - i

\* C4 witness: C1 tagged 1.0.0, C2 tagged 1.1.0, C3 untagged: tag 1.1.0, [C3]
C4_Witness ==
    /\ pc = "done"
    /\ Len(commits) = 3
    /\ tagrefs = <<[name |-> V100, target |-> Annotated(1)],
                   [name |-> V110, target |-> Annotated(2)]>>
    /\ CommitTime(1) = CommitTime(3)
    /\ result = Ok(V110, <<3>>)

\* C5: when no tag parses as a semantic version the call ends at once with
\* the error "no semver tags found": no tag, no commits, no later step.
C5_NoSemverTagsIsAnError ==
    (pc # "idle" /\ Parsing(tagrefs) = {}) =>
        /\ pc = "done"
        /\ result = Err("no semver tags found", <<>>)
        /\ latest_tag = 0
        /\ tag_oid = 0
        /\ base = None
        /\ merge_base = None

\* C5 witness: the call failed in a repository whose only tags do not parse
C5_Witness ==
    /\ pc = "done"
    /\ Len(tagrefs) = 2
    /\ Parsing(tagrefs) = {}
    /\ result.err = "no semver tags found"

\* C6: the strategies run in order and the first that yields a pair decides:
\* strategy 2 runs only after strategy 1 yielded nothing, the HEAD fallback
\* only after both did, and the base is strategy 1's pair whenever there is
\* one, else strategy 2's whenever there is one, whatever HEAD is.
C6_FirstStrategyWins ==
    /\ pc = "remote_default" => ResolveFromOriginHead = None
    /\ pc = "head" => ResolveFromOriginHead = None /\ ResolveFromRemoteDefault = None
    /\ (pc \in {"walk", "done"} /\ ResolveFromOriginHead # None)
          => base = ResolveFromOriginHead
    /\ (pc \in {"walk", "done"} /\ ResolveFromOriginHead = None
          /\ ResolveFromRemoteDefault # None)
          => base = ResolveFromRemoteDefault

\* C6 witness: strategy 1 decided while strategy 2 and HEAD (another branch
\* is checked out) would each have given a different pair
C6_Witness ==
    /\ pc = "walk"
    /\ ResolveFromOriginHead # None
    /\ base = ResolveFromOriginHead
    /\ ResolveFromRemoteDefault # None
    /\ ResolveFromRemoteDefault # base
    /\ RepoHead # None
    /\ RepoHead.val.name \notin {base.val.name, ResolveFromRemoteDefault.val.name}

\* what the call shows of a strategy's outcome v: the next strategy runs only
\* when v is nothing
Strategy1Yielded(v) ==
    /\ ResolveFromOriginHead = v
    /\ pc \in {"remote_default", "head"} => v = None
    /\ (pc = "walk" /\ v # None) => base = v

\* C7: with origin/HEAD symbolic to refs/remotes/origin/X, strategy 1 yields
\* (refs/heads/X, its commit) when that has a direct target, else
\* (refs/remotes/origin/X, its commit) when that has one, else nothing; and
\* nothing when origin/HEAD is absent or not symbolic.
C7_OriginHeadPrefersLocalBranch ==
    /\ \A X \in Branches :
          refs[OriginHeadName] = Symbolic(Tracking(X)) =>
              IF refs[Heads(X)].kind = "direct"
              THEN Strategy1Yielded(Pair(Heads(X), refs[Heads(X)].oid))
              ELSE IF refs[Tracking(X)].kind = "direct"
              THEN Strategy1Yielded(Pair(Tracking(X), refs[Tracking(X)].oid))
              ELSE Strategy1Yielded(None)
    /\ refs[OriginHeadName].kind \in {"absent", "direct"} => Strategy1Yielded(None)

\* C7 witness: the local branch won although the remote-tracking branch
\* points at another commit
C7_Witness ==
    /\ pc = "walk"
    /\ refs[OriginHeadName] = Symbolic(Tracking("main"))
    /\ refs[Heads("main")] = Direct(1)
    /\ refs[Tracking("main")] = Direct(2)
    /\ base = Pair(Heads("main"), 1)

Strategy2Yielded(v) ==
    /\ ResolveFromRemoteDefault = v
    /\ pc = "head" => v = None
    /\ (pc = "walk" /\ v # None) => base = v

IsDirect(n) == n \in DOMAIN refs /\ refs[n].kind = "direct"

\* C8: when strategy 1 yields nothing and origin advertises the default
\* branch name N (as text), strategy 2 yields (N, its commit) when N has a
\* direct target; otherwise, only for N = refs/heads/<suffix>, it yields
\* (refs/remotes/origin/<suffix>, its commit) when that has one; else nothing.
C8_RemoteDefaultTriesNameThenTracking ==
    (ResolveFromOriginHead = None /\ remote.exists /\ remote.default # None
        /\ Utf8(remote.default.val)) =>
        LET N == remote.default.val IN
        IF IsDirect(N) THEN Strategy2Yielded(Pair(N, refs[N].oid))
        ELSE IF Len(N) = 3 /\ N[1] = "refs" /\ N[2] = "heads" /\ IsDirect(Tracking(N[3]))
        THEN Strategy2Yielded(Pair(Tracking(N[3]), refs[Tracking(N[3])].oid))
        ELSE Strategy2Yielded(None)

\* C8 witness: origin/HEAD is absent, the advertised refs/heads/dev has no
\* direct target and the remote-tracking refs/remotes/origin/dev supplied the base
C8_Witness ==
    /\ pc = "walk"
    /\ refs[OriginHeadName] = Absent
    /\ remote = [exists |-> TRUE, default |-> Some(Heads("dev"))]
    /\ refs[Heads("dev")].kind # "direct"
    /\ base = Pair(Tracking("dev"), 2)

\* C9: when strategies 1 and 2 yield nothing and HEAD resolves to a commit,
\* the base is (the name of the reference HEAD resolves to, or "HEAD" when
\* that name is not text or HEAD is detached; the commit HEAD points at).
C9_FallsBackToHead ==
    (pc \in {"walk", "done"} /\ ResolveFromOriginHead = None
        /\ ResolveFromRemoteDefault = None) =>
        /\ head.kind = "direct" => base = Pair(<<"HEAD">>, head.oid)
        /\ \A n \in RefNames :
              (head = Symbolic(n) /\ refs[n].kind = "direct") =>
                  base = Pair(IF n = Heads(BadUtf8) THEN <<"HEAD">> ELSE n, refs[n].oid)
        /\ \A n, m \in RefNames :
              (head = Symbolic(n) /\ refs[n] = Symbolic(m) /\ refs[m].kind = "direct") =>
                  base = Pair(m, refs[m].oid)

\* C9 witness: HEAD is on a branch whose name is not text, so the base is
\* named "HEAD"
C9_Witness ==
    /\ pc = "walk"
    /\ ResolveFromOriginHead = None
    /\ ResolveFromRemoteDefault = None
    /\ head = Symbolic(Heads(BadUtf8))
    /\ base = Pair(<<"HEAD">>, 2)

\* C10: nothing that goes wrong inside strategies 1 and 2 is returned as an
\* error: the call fails exactly when both yield nothing and HEAD resolves to
\* no commit, with the HEAD fallback's error, and succeeds whenever HEAD
\* resolves to a commit.
C10_OnlyHeadFallbackFails ==
    /\ pc \in {"origin_head", "remote_default", "head", "walk"} => result = NoResult
    /\ pc = "done" =>
          /\ (result.status = "err") =
                (ResolveFromOriginHead = None /\ ResolveFromRemoteDefault = None
                    /\ RepoHead = None)
          /\ result.status = "err" => result.err = "repository has no HEAD"
          /\ RepoHead # None => result.status = "ok"

\* C10 witness: no remote, a dangling origin/HEAD, and the call succeeded on
\* the checked-out branch
C10_Witness ==
    /\ pc = "done"
    /\ result.status = "ok"
    /\ ~remote.exists
    /\ refs[OriginHeadName] = Symbolic(Tracking("dev"))
    /\ refs[Tracking("dev")] = Absent
    /\ refs[Heads("dev")] = Absent
    /\ base = Pair(Heads("main"), 1)

\* C11: whatever the commit graph and the commit times, the commits of a
\* successful call are in commit-time order, latest first: no commit is
\* preceded by one with an earlier commit time.
C11_CommitsByTimeDescending ==
    (pc = "done" /\ result.status = "ok") => TimeDescending(result.commits)

\* C11 witness: a parent with a later commit time than its child is returned
\* before the child
C11_Witness ==
    /\ pc = "done"
    /\ result.status = "ok"
    /\ \E i, j \in 1..Len(result.commits) :
          /\ i < j
          /\ result.commits[i] \in Parents(result.commits[j])
          /\ CommitTime(result.commits[i]) > CommitTime(result.commits[j])

\* the locals that the steps after tag selection, after peeling, and after
\* base resolution assign are still unassigned
NothingAfterSelect == tag_oid = 0 /\ base = None /\ merge_base = None /\ collected = <<>>

NothingAfterPeel == base = None /\ merge_base = None /\ collected = <<>>

NothingAfterBase == merge_base = None /\ collected = <<>>

\* C12: the steps run in the order select, peel, resolve base, walk: a step
\* runs only after every earlier one succeeded, and the first step that
\* fails ends the call with its own error, no later step having run.  With
\* no semver tag the error is "no semver tags found" whatever HEAD is, and
\* with an unpeelable latest tag the peel error whatever HEAD is.
C12_StepsRunInOrder ==
    /\ pc = "peel" => latest_tag # 0 /\ NothingAfterSelect /\ result = NoResult
    /\ pc \in {"origin_head", "remote_default", "head"} =>
          latest_tag # 0 /\ tag_oid # 0 /\ NothingAfterPeel /\ result = NoResult
    /\ pc = "walk" =>
          latest_tag # 0 /\ tag_oid # 0 /\ base # None /\ NothingAfterBase
              /\ result = NoResult
    /\ pc = "done" =>
          /\ result.err = "no semver tags found" => latest_tag = 0 /\ NothingAfterSelect
          /\ result.err = "could not peel tag" => latest_tag # 0 /\ NothingAfterSelect
          /\ result.err = "repository has no HEAD" =>
                latest_tag # 0 /\ tag_oid # 0 /\ NothingAfterPeel
          /\ result.err \notin {"no semver tags found", "could not peel tag",
                                 "repository has no HEAD"} =>
                latest_tag # 0 /\ tag_oid # 0 /\ base # None
          /\ Parsing(tagrefs) = {} => result.err = "no semver tags found"
          /\ (Parsing(tagrefs) # {}
                /\ PeelToCommit(tagrefs[MaxTagIndex].target) = None) =>
                result.err = "could not peel tag"

\* C12 witness: no tag parses and HEAD is on an unborn branch: the call
\* reports the missing semver tags
C12_Witness ==
    /\ pc = "done"
    /\ Len(tagrefs) >= 1
    /\ Parsing(tagrefs) = {}
    /\ RepoHead = None
    /\ result = Err("no semver tags found", <<>>)

\* C13: when the tag of maximum version does not peel to a commit, the call
\* ends with the peel error naming that tag: no other tag is taken in its
\* place, no base is resolved and no history is walked.
C13_PeelFailureIsFatal ==
    (pc \notin {"idle", "peel"} /\ Parsing(tagrefs) # {}) =>
        LET max == tagrefs[MaxTagIndex] IN
        PeelToCommit(max.target) = None =>
            /\ pc = "done"
            /\ result = Err("could not peel tag", max.name)
            /\ latest_tag = MaxTagIndex
            /\ NothingAfterSelect

\* C13 witness: 1.1.0 is on an object that is not a commit, 1.0.0 on a
\* commit, the object database is sound, and the call failed on 1.1.0
C13_Witness ==
    /\ pc = "done"
    /\ ~faults
    /\ \E i, j \in 1..Len(tagrefs) :
          /\ tagrefs[i] = [name |-> V110, target |-> Lightweight(0)]
          /\ tagrefs[j].name = V100
          /\ tagrefs[j].target.obj # 0
    /\ result = Err("could not peel tag", V110)

\* C14: the call is all-or-nothing: a call that fails hands out no tag and
\* no commit, however many commits the walk had collected, and a call that
\* succeeds hands out every commit of the walk.
C14_AllOrNothing ==
    pc = "done" =>
        /\ result.status = "err" => result.tag = <<>> /\ result.commits = <<>>
        /\ result.status = "ok" =>
              /\ result.commits = collected
              /\ Elems(result.commits) = WalkSet(base.val.oid, merge_base)
              /\ NoDup(result.commits)

\* C14 witness: a commit could not be looked up after another one had been
\* collected, and the call failed
C14_Witness ==
    /\ pc = "done"
    /\ Len(collected) >= 1
    /\ result = Err("could not look up commit during revwalk", <<>>)

\* C15: no step of a call, whether the call succeeds or fails, changes the
\* repository: commits, tags, branch and remote-tracking references, HEAD
\* and the remote are the same after the step as before it.
C15_CallsLeaveRepositoryUnchanged ==
    [][(pc # "idle" \/ pc' # "idle") =>
          /\ commits' = commits
          /\ tagrefs' = tagrefs
          /\ refs' = refs
          /\ head' = head
          /\ remote' = remote]_vars

\* C15 witness: a call whose base came from the remote's default branch has
\* ended and origin/HEAD is still absent
C15_Witness ==
    /\ pc = "done"
    /\ result.status = "ok"
    /\ refs[OriginHeadName] = Absent
    /\ ResolveFromRemoteDefault # None
    /\ base = ResolveFromRemoteDefault

\* the positions of the tags whose version is the selected tag's version, in
\* every field
SameAsSelected == {i \in Parsing(tagrefs) : VersionAt(i) = VersionAt(latest_tag)}

\* C17 as stated: of several tags that parse to the same maximum version the
\* one enumerated first is selected.
C17_TieSelectsFirst ==
    (pc # "idle" /\ latest_tag # 0) =>
        \A i \in SameAsSelected : latest_tag <= i

\* C17: of several tags that parse to the same maximum version (the same in
\* every field) the one enumerated last is selected.
C17_TieSelectsLast ==
    (pc # "idle" /\ latest_tag # 0) =>
        \A i \in SameAsSelected : i <= latest_tag

\* C17 witness: 1.1.0 and v1.1.0 on different commits, 1.1.0 enumerated
\* first: v1.1.0 is selected
C17_Witness ==
    /\ pc = "peel"
    /\ Len(tagrefs) = 2
    /\ tagrefs[1].name = V110
    /\ tagrefs[2].name = <<"v">> \o V110
    /\ tagrefs[1].target.obj # tagrefs[2].target.obj
    /\ latest_tag = 2

Rename(trefs, i, n) == [trefs EXCEPT ![i].name = n]

TagNamed(n) == \E i \in 1..Len(tagrefs) : tagrefs[i].name = n

\* C18: one leading lowercase 'v', and no more, is removed before parsing: for
\* a tag named N that does not start with 'v', naming it "v"+N instead
\* gives the same version or the same exclusion, and the same position is
\* selected; a tag whose name starts with "vv" or with 'V' does not parse
\* and is never selected.
C18_OneLeadingVIsStripped ==
    pc # "idle" =>
        \A i \in 1..Len(tagrefs) :
            LET N == tagrefs[i].name
                vN == <<"v">> \o N
            IN  /\ (N[1] # "v" /\ vN \in TagNames) =>
                      /\ ParsedNames[vN] = ParsedNames[N]
                      /\ ParsedNames[N] = ParseVersion(N)
                      /\ ~TagNamed(vN) =>
                            LatestTag(Rename(tagrefs, i, vN)) = latest_tag
                /\ ((N[1] = "v" /\ N[2] = "v") \/ N[1] = "V") =>
                      /\ TagVersion(tagrefs[i]) = None
                      /\ latest_tag # i

\* C18 witness: v1.0.0 is selected next to vv2.0.0
C18_Witness ==
    /\ pc = "peel"
    /\ Len(tagrefs) = 2
    /\ tagrefs[1].name = <<"v">> \o V100
    /\ tagrefs[2].name = <<"v", "v", "2", ".", "0", ".", "0">>
    /\ latest_tag = 1

\* two versions that differ in their build metadata only
OnlyBuildDiffers(a, b) ==
    a # b /\ [a EXCEPT !.build = <<>>] = [b EXCEPT !.build = <<>>]

Swap(trefs, i, j) ==
    [trefs EXCEPT ![i].name = trefs[j].name, ![j].name = trefs[i].name]

\* C19: two tags whose versions differ in build metadata only compare as
\* equal in the selection: neither is preferred for its build metadata, so
\* exchanging their names leaves the selected position unchanged.
C19_BuildMetadataIgnored ==
    pc # "idle" =>
        \A i, j \in Parsing(tagrefs) :
            OnlyBuildDiffers(VersionAt(i), VersionAt(j)) =>
                /\ CmpVersion(VersionAt(i), VersionAt(j)) = 0
                /\ LatestTag(Swap(tagrefs, i, j)) = latest_tag

\* C20: the selected tag is the tag of maximum version whatever the tags
\* point at (an old commit, the tip of the branch, an unrelated commit, an
\* object that is not a commit), whatever the commit times and whatever
\* HEAD and the resolved base are.
C20_SelectionIgnoresTargets ==
    (pc # "idle" /\ Parsing(tagrefs) # {}) =>
        /\ latest_tag = MaxTagIndex
        /\ latest_tag = LatestTag([i \in 1..Len(tagrefs) |->
                                     [tagrefs[i] EXCEPT !.target = Lightweight(1)]])
        /\ result.status = "ok" => result.tag = tagrefs[MaxTagIndex].name

\* C20 witness: 1.1.0 on an unrelated commit that the base does not reach,
\* 1.0.0 on the newest commit of the branch: 1.1.0 is returned
C20_Witness ==
    /\ pc = "done"
    /\ \E i, j \in 1..Len(tagrefs) :
          /\ tagrefs[i] = [name |-> V110, target |-> Lightweight(3)]
          /\ tagrefs[j] = [name |-> V100, target |-> Annotated(2)]
    /\ base = Pair(Heads("main"), 2)
    /\ merge_base = None
    /\ result = Ok(V110, <<2, 1>>)

\* C27: in every commit graph, for every tag placement and every base, the
\* commits of a successful call contain neither the commit the selected tag
\* peels to nor the merge-base.
C27_TagCommitAndMergeBaseExcluded ==
    (pc = "done" /\ result.status = "ok") =>
        /\ tag_oid \notin Elems(result.commits)
        /\ merge_base # None => merge_base.val \notin Elems(result.commits)

\* C27 witness: the tag sits on a side branch, the merge-base is neither the
\* tag commit nor the base, and commits were returned
C27_Witness ==
    /\ pc = "done"
    /\ result.status = "ok"
    /\ merge_base # None
    /\ merge_base.val \notin {tag_oid, base.val.oid}
    /\ Len(result.commits) >= 1

\* C28: when the base commit is the tag commit or one of its ancestors, the
\* call succeeds and returns the tag with no commits.
C28_BaseNotAheadOfTagGivesNothing ==
    (pc = "done" /\ base # None /\ base.val.oid \in Ancestors(tag_oid)) =>
        result = Ok(tagrefs[latest_tag].name, <<>>)

\* C28 witness: the tag is on a commit ahead of the base and the call
\* returned the tag with no commits
C28_Witness ==
    /\ pc = "done"
    /\ base # None
    /\ base.val.oid # tag_oid
    /\ base.val.oid \in Ancestors(tag_oid)
    /\ result = Ok(V100, <<>>)


(***************************************************************************)
(* The helpers of src/cli/git.rs and the rest of the tool.  Their          *)
(* specifications leave the repository of the sections above alone.        *)
(***************************************************************************)
git == <<repo, pc, locals>>

GitIdle ==
    /\ commits = <<>>
    /\ tagrefs = <<>>
    /\ refs = [n \in RefNames |-> Absent]
    /\ head = Symbolic(Heads("main"))
    /\ remote = [exists |-> FALSE, default |-> None]
    /\ faults = FALSE
    /\ pc = "idle"
    /\ latest_tag = 0
    /\ tag_oid = 0
    /\ base = None
    /\ merge_base = None
    /\ collected = <<>>
    /\ result = NoResult

IsPrefix(s, t) == Len(s) <= Len(t) /\ SubSeq(t, 1, Len(s)) = s

(***************************************************************************)
(* get_short_message.  A stored commit message is a sequence of bytes;     *)
(* BadByte stands for a byte that makes it invalid UTF-8.                  *)
(***************************************************************************)
MaxMsgLen == 3

BadByte == "xFF"

MsgBytes == {"a", "b", "\n", BadByte}

Messages == UNION {[1..n -> MsgBytes] : n \in 0..MaxMsgLen}

\* libgit2 git_commit_message: the raw message after its leading newlines
RECURSIVE SkipNewlines(_)
SkipNewlines(raw) ==
    IF Len(raw) >= 1 /\ raw[1] = "\n" THEN SkipNewlines(Tail(raw)) ELSE raw

\* git2 Commit::message(): None when the message is not valid UTF-8
Message(raw) ==
    LET m == SkipNewlines(raw) IN
    IF \E i \in 1..Len(m) : m[i] = BadByte THEN None ELSE Some(m)

\* variant: the cut keeps the newline
ShortMessage_KeepsNewline(raw) ==
    LET full_message == IF Message(raw) = None THEN <<>> ELSE Message(raw).val
        pos == Find(full_message, "\n")
    IN  IF pos # 0 THEN SubSeq(full_message, 1, pos) ELSE full_message

\* the value get_short_message returns for a commit storing raw
ShortMessage(raw) ==
    LET full_message == IF Message(raw) = None THEN <<>> ELSE Message(raw).val
        pos == Find(full_message, "\n")
    IN  IF pos # 0 THEN SubSeq(full_message, 1, pos - 1) ELSE full_message

GetShortMessage ==
    /\ short_message = None
    /\ short_message' = Some(ShortMessage(commit_message))
    /\ UNCHANGED <<git, commit_message, hash, abbreviated, origin_url, org_repo,
                   config, runner>>

InitMessage ==
    /\ GitIdle /\ ConfigIdle /\ RunnerIdle
    /\ commit_message \in Messages
    /\ short_message = None
    /\ hash = <<>>
    /\ abbreviated = None
    /\ origin_url = None
    /\ org_repo = None

SpecMessage == InitMessage /\ [][GetShortMessage]_vars

\* the part of m before its first newline, m itself when it has none
BeforeNewline(m) ==
    LET p == Find(m, "\n") IN IF p = 0 THEN m ELSE SubSeq(m, 1, p - 1)

\* C21 (as stated): for every commit message m, get_short_message returns
\* the part of m before the first newline, m unchanged when it has no
\* newline and the empty string when m is empty; the result never contains
\* a newline and is always a prefix of m.
C21_ShortMessageOfStoredMessage ==
    short_message # None =>
        /\ short_message.val = BeforeNewline(commit_message)
        /\ commit_message = <<>> => short_message.val = <<>>
        /\ \A i \in 1..Len(short_message.val) : short_message.val[i] # "\n"
        /\ IsPrefix(short_message.val, commit_message)

\* C21 (amended): the same holds of the message as Commit::message()
\* reports it, which is the stored message without its leading newlines
\* when that is valid UTF-8; for a message that is not valid UTF-8 the
\* result is the empty string.
C21_ShortMessageOfReportedMessage ==
    short_message # None =>
        LET m == Message(commit_message) IN
        /\ m = None => short_message.val = <<>>
        /\ m # None =>
            /\ short_message.val = BeforeNewline(m.val)
            /\ m.val = <<>> => short_message.val = <<>>
            /\ IsPrefix(short_message.val, m.val)
        /\ \A i \in 1..Len(short_message.val) : short_message.val[i] # "\n"

C21_Witness ==
    /\ short_message # None
    /\ Message(commit_message) # None
    /\ Find(Message(commit_message).val, "\n") > 1
    /\ short_message.val # <<>>
    /\ short_message.val # Message(commit_message).val

(***************************************************************************)
(* get_abbreviated_hash.  A git2::Oid is OidRawLen bytes; its canonical    *)
(* hex form (Oid's Display) writes every byte as two lowercase hex digits. *)
(***************************************************************************)
OidRawLen == 20

AbbrevLen == 7

MaxVaried == 4

HexChars ==
    <<"0", "1", "2", "3", "4", "5", "6", "7", "8", "9", "a", "b", "c", "d", "e", "f">>

OidBytes == {0, 10, 171, 255}

\* the object ids drawn: the first MaxVaried bytes vary, the others are 1
RawOids ==
    {[i \in 1..OidRawLen |-> IF i <= MaxVaried THEN f[i] ELSE 1] :
        f \in [1..MaxVaried -> OidBytes]}

\* Oid::to_string()
RECURSIVE OidToString(_)
OidToString(bytes) ==
    IF bytes = <<>> THEN <<>>
    ELSE <<HexChars[(Head(bytes) \div 16) + 1], HexChars[(Head(bytes) % 16) + 1]>>
         \o OidToString(Tail(bytes))

\* variant: the cut is one character late
AbbreviatedHash_OneMore(oid) ==
    LET full_hash == OidToString(oid) IN
    IF Len(full_hash) > AbbrevLen THEN SubSeq(full_hash, 1, AbbrevLen + 1) ELSE full_hash

\* the value get_abbreviated_hash returns
AbbreviatedHash(oid) ==
    LET full_hash == OidToString(oid) IN
    IF Len(full_hash) > AbbrevLen THEN SubSeq(full_hash, 1, AbbrevLen) ELSE full_hash

GetAbbreviatedHash ==
    /\ abbreviated = None
    /\ abbreviated' = Some(AbbreviatedHash(hash))
    /\ UNCHANGED <<git, commit_message, short_message, hash, origin_url, org_repo,
                   config, runner>>

InitHash ==
    /\ GitIdle /\ ConfigIdle /\ RunnerIdle
    /\ commit_message = <<>>
    /\ short_message = None
    /\ hash \in RawOids
    /\ abbreviated = None
    /\ origin_url = None
    /\ org_repo = None

SpecHash == InitHash /\ [][GetAbbreviatedHash]_vars

Min(a, b) == IF a <= b THEN a ELSE b

\* C22: get_abbreviated_hash returns exactly the first 7 characters of the
\* identifier's canonical hex form when that form is longer than 7
\* characters and the hex form unchanged when it is 7 characters or
\* shorter; the result is a prefix of the hex form of length
\* min(7, length).
C22_FirstSevenHexCharacters ==
    abbreviated # None =>
        LET hex == OidToString(hash) IN
        /\ Len(hex) > 7 => abbreviated.val = SubSeq(hex, 1, 7)
        /\ Len(hex) <= 7 => abbreviated.val = hex
        /\ IsPrefix(abbreviated.val, hex)
        /\ Len(abbreviated.val) = Min(7, Len(hex))

C22_Witness ==
    /\ abbreviated # None
    /\ Len(OidToString(hash)) = 40
    /\ abbreviated.val = <<"a", "b", "0", "0", "f", "f", "0">>

(***************************************************************************)
(* get_org_and_repo.  origin_url is None when the repository has no remote *)
(* named origin, else Some(u) with u the remote's URL: None when it is not *)
(* valid UTF-8, else Some of its characters.                               *)
(***************************************************************************)
DotGit == <<".", "g", "i", "t">>

GithubCom == <<"g", "i", "t", "h", "u", "b", ".", "c", "o", "m">>

EndsWith(s, suffix) ==
    Len(s) >= Len(suffix) /\ SubSeq(s, Len(s) - Len(suffix) + 1, Len(s)) = suffix

\* variant: nothing is trimmed
TrimEndMatches_Nothing(s, pat) == s

\* str::trim_end_matches(pat): every trailing repetition of pat is removed
RECURSIVE TrimEndMatches(_, _)
TrimEndMatches(s, pat) ==
    IF EndsWith(s, pat) THEN TrimEndMatches(SubSeq(s, 1, Len(s) - Len(pat)), pat)
    ELSE s

\* str::split(['/', ':']): the pieces between any of the separators
RECURSIVE SplitAny(_, _)
SplitAny(s, seps) ==
    IF \A i \in 1..Len(s) : s[i] \notin seps THEN <<s>>
    ELSE LET p == CHOOSE i \in 1..Len(s) :
                      s[i] \in seps /\ \A j \in 1..(i - 1) : s[j] \notin seps
         IN  <<SubSeq(s, 1, p - 1)>> \o SplitAny(SubSeq(s, p + 1, Len(s)), seps)

\* str::contains(pat)
Contains(s, pat) ==
    \E i \in 1..(Len(s) - Len(pat) + 1) : SubSeq(s, i, i + Len(pat) - 1) = pat

\* Iterator::position, counted from 1; 0 when no part contains pat
Position(parts, pat) ==
    IF \A i \in 1..Len(parts) : ~Contains(parts[i], pat) THEN 0
    ELSE CHOOSE i \in 1..Len(parts) :
             Contains(parts[i], pat) /\ \A j \in 1..(i - 1) : ~Contains(parts[j], pat)

OrgRepo(org, name) == [status |-> "ok", org |-> org, repo |-> name, err |-> ""]

OrgRepoErr(msg) == [status |-> "err", org |-> <<>>, repo |-> <<>>, err |-> msg]

\* the value get_org_and_repo returns
OrgAndRepo(origin) ==
    IF origin = None THEN OrgRepoErr("Could not find remote 'origin'")
    ELSE IF origin.val = None THEN OrgRepoErr("Remote has no URL")
    ELSE LET url == origin.val.val
             trimmed == TrimEndMatches(url, DotGit)
             parts == SplitAny(trimmed, {"/", ":"})
             idx == Position(parts, GithubCom)
         IN  IF idx = 0 THEN OrgRepoErr("does not look like a GitHub URL")
             ELSE IF idx + 1 >= Len(parts)
                  THEN OrgRepoErr("Could not parse organization and repo name")
                  ELSE OrgRepo(parts[idx + 1], parts[idx + 2])

GetOrgAndRepo ==
    /\ org_repo = None
    /\ org_repo' = Some(OrgAndRepo(origin_url))
    /\ UNCHANGED <<git, commit_message, short_message, hash, abbreviated, origin_url,
                   config, runner>>

\* the three forms of a GitHub remote URL, up to the organization
UrlForms ==
    { <<"g", "i", "t", "@">> \o GithubCom \o <<":">>,
      <<"h", "t", "t", "p", "s", ":", "/", "/">> \o GithubCom \o <<"/">>,
      <<"s", "s", "h", ":", "/", "/", "g", "i", "t", "@">> \o GithubCom \o <<"/">> }

\* organization names: letters, digits and hyphens
Orgs == { <<"o">>, <<"m", "y", "-", "o", "r", "g">>, <<"g", "i", "t">> }

\* repository names: letters, digits, '.', '-' and '_'; GitHub gives no
\* repository a name that ends in ".git"
Repos ==
    { <<"r">>, <<"g", "i", "t">>, <<"m", "y", "-", "r", "e", "p", "o">>,
      <<"a", ".", "g", "i", "t", ".", "b">>, GithubCom, <<"a", ".", "g", "i">> }

GithubUrl(form, org, name) == form \o org \o <<"/">> \o name \o DotGit

\* other URLs an origin can have
OtherUrls ==
    { <<>>,
      <<"h", "t", "t", "p", "s", ":", "/", "/">> \o <<"g", "i", "t", "l", "a", "b", ".", "c", "o", "m", "/", "o", "/", "r">> \o DotGit,
      <<"h", "t", "t", "p", "s", ":", "/", "/">> \o GithubCom,
      <<"h", "t", "t", "p", "s", ":", "/", "/">> \o GithubCom \o <<"/", "o">> \o DotGit,
      <<"g", "i", "t", "@">> \o GithubCom \o <<":", "o">>,
      <<"h", "t", "t", "p", "s", ":", "/", "/">> \o GithubCom \o <<"/", "o", "/", "r">>,
      <<"h", "t", "t", "p", "s", ":", "/", "/">> \o GithubCom
          \o <<"/", "o", "/", "r">> \o DotGit \o DotGit,
      <<"/", "s", "r", "v", "/", "r">> \o DotGit }

Origins ==
    {None, Some(None)}
        \cup {Some(Some(u)) : u \in OtherUrls}
        \cup {Some(Some(GithubUrl(f, o, r))) : f \in UrlForms, o \in Orgs, r \in Repos}

InitUrl ==
    /\ GitIdle /\ ConfigIdle /\ RunnerIdle
    /\ commit_message = <<>>
    /\ short_message = None
    /\ hash = <<>>
    /\ abbreviated = None
    /\ origin_url \in Origins
    /\ org_repo = None

SpecUrl == InitUrl /\ [][GetOrgAndRepo]_vars

\* the segments of the URL as stored, and those after the first one that
\* contains "github.com"
UrlSegments == SplitAny(origin_url.val.val, {"/", ":"})

SegmentsAfterHost ==
    Len(UrlSegments) - Position(UrlSegments, GithubCom)

\* C23: for an origin URL of the forms git@github.com:ORG/REPO.git,
\* https://github.com/ORG/REPO.git and ssh://git@github.com/ORG/REPO.git,
\* get_org_and_repo returns (ORG, REPO) without the trailing ".git"; it
\* returns an error when there is no remote origin, when no URL segment
\* contains "github.com", or when fewer than two segments follow the host
\* segment.
C23_OrgAndRepoFromGithubUrl ==
    org_repo # None =>
        /\ \A f \in UrlForms, o \in Orgs, r \in Repos :
               origin_url = Some(Some(GithubUrl(f, o, r))) => org_repo.val = OrgRepo(o, r)
        /\ origin_url = None => org_repo.val.status = "err"
        /\ (origin_url # None /\ origin_url.val # None) =>
               /\ Position(UrlSegments, GithubCom) = 0 => org_repo.val.status = "err"
               /\ SegmentsAfterHost < 2 => org_repo.val.status = "err"

C23_Witness ==
    /\ org_repo # None
    /\ origin_url \in {Some(Some(GithubUrl(f, <<"g", "i", "t">>, <<"a", ".", "g", "i", "t", ".", "b">>))) :
                           f \in UrlForms}
    /\ org_repo.val.status = "ok"

(***************************************************************************)
(* Cli::resolve_config.  args is the parsed command line, loaded what      *)
(* Configuration::load returned (None when it failed), conf the result.    *)
(***************************************************************************)
Gemini == <<"g", "e", "m", "i", "n", "i">>

\* u8::to_ascii_lowercase on the uppercase letters that occur
LowerChar(c) ==
    CASE c = "O" -> "o"
      [] c = "A" -> "a"
      [] c = "I" -> "i"
      [] c = "N" -> "n"
      [] c = "Y" -> "y"
      [] OTHER -> c

ToAsciiLowercase(s) == [i \in 1..Len(s) |-> LowerChar(s[i])]

\* impl TryFrom<String> for Llm: None stands for the Err
LlmTryFrom(value) ==
    LET v == ToAsciiLowercase(value) IN
    IF v = Gemini THEN Some("Gemini")
    ELSE IF v = <<"o", "p", "e", "n", "a", "i">> THEN Some("OpenAI")
    ELSE None

ArgsSet ==
    [use_llm : {None, Some(TRUE), Some(FALSE)},
     llm_provider : {None, Some(Gemini), Some(<<"O", "p", "e", "n", "A", "I">>),
                     Some(<<"b", "o", "g", "u", "s">>)},
     llm_model : {None, Some("gpt-4o-mini")},
     debug : BOOLEAN,
     output_format : {None, Some("json")}]

\* the values of CliConfig a file and the environment can produce
LoadedSet ==
    [debug : BOOLEAN,
     output_format : {"pretty", "plain"},
     llm : [enable : BOOLEAN,
            provider : {None, Some("Gemini")},
            model : {None, Some("gemini-pro")},
            token : {"secret"},
            max_commits : {1}]]

ConfOk(c) == [status |-> "ok", conf |-> c, err |-> ""]

ConfErr(msg) == [status |-> "err", conf |-> None, err |-> msg]

\* the value resolve_config returns when Configuration::load returned l
ResolvedConfig(a, l) ==
    IF l = None THEN ConfErr("Could not parse configuration")
    ELSE IF a.llm_provider # None /\ LlmTryFrom(a.llm_provider.val) = None
         THEN ConfErr("Could not parse llm provider")
    ELSE LET c0 == l.val
             c1 == IF a.use_llm # None
                   THEN [c0 EXCEPT !.llm.enable = a.use_llm.val] ELSE c0
             c2 == IF a.llm_provider # None
                   THEN [c1 EXCEPT !.llm.provider = LlmTryFrom(a.llm_provider.val)] ELSE c1
             c3 == IF a.llm_model # None
                   THEN [c2 EXCEPT !.llm.model = Some(a.llm_model.val)] ELSE c2
             c4 == IF a.output_format # None
                   THEN [c3 EXCEPT !.output_format = a.output_format.val] ELSE c3
         IN  ConfOk([c4 EXCEPT !.debug = a.debug])

ResolveConfig ==
    /\ conf = None
    /\ \E l \in {None} \cup {Some(c) : c \in LoadedSet} :
           /\ loaded' = l
           /\ conf' = Some(ResolvedConfig(args, l))
    /\ UNCHANGED <<git, helpers, args, runner>>

InitConfig ==
    /\ GitIdle /\ HelpersIdle /\ RunnerIdle
    /\ args \in ArgsSet
    /\ loaded = None
    /\ conf = None

SpecConfig == InitConfig /\ [][ResolveConfig]_vars

\* a value takes the flag's value when the flag was given, else the loaded one
FlagOr(flag, loaded_value) == IF flag # None THEN flag.val ELSE loaded_value

\* C24: resolve_config layers file < environment < command-line flag: for
\* each of llm.enable, llm.provider, llm.model, output_format and debug, the
\* final value is the command-line value when that flag was given, and
\* otherwise the value loaded from file and environment, unchanged.
C24_FlagsOverrideLoadedValues ==
    (conf # None /\ conf.val.status = "ok") =>
        LET final == conf.val.conf
            base_conf == loaded.val
        IN  /\ final.llm.enable = FlagOr(args.use_llm, base_conf.llm.enable)
            /\ final.llm.provider =
                   IF args.llm_provider # None
                   THEN LlmTryFrom(args.llm_provider.val)
                   ELSE base_conf.llm.provider
            /\ final.llm.model =
                   IF args.llm_model # None THEN Some(args.llm_model.val)
                   ELSE base_conf.llm.model
            /\ final.output_format = FlagOr(args.output_format, base_conf.output_format)
            /\ final.debug = IF args.debug THEN TRUE ELSE base_conf.debug
            /\ final.llm.token = base_conf.llm.token
            /\ final.llm.max_commits = base_conf.llm.max_commits

(***************************************************************************)
(* The release (Release::new) and generate_changelog_with_llm.  A release  *)
(* holds the ids of the commits get_commits_after_latest_tag returned and  *)
(* its assets; short_commits and full_commits are HashMaps keyed by the    *)
(* abbreviated and by the full hex form of the ids.                        *)
(***************************************************************************)
MaxLlmCommits == 2

MaxAssets == 2

\* an id whose hex form is "ababab" followed by the two digits of byte b
OidEnding(b) ==
    [i \in 1..OidRawLen |-> IF i < 4 THEN 171 ELSE IF i = 4 THEN b ELSE 1]

\* "ababab00..." and "ababab0a..." share their first seven digits
ReleaseOids == {OidEnding(0), OidEnding(10), OidEnding(255)}

AssetPool == <<"a.tar.gz", "b.tar.gz", "c.tar.gz">>

Releases ==
    [commits : SUBSET ReleaseOids,
     assets : {SubSeq(AssetPool, 1, n) : n \in 0..MaxAssets}]

\* the keys of Release::short_commits (those of full_commits are the full
\* hex forms, one for every commit)
ShortCommitKeys(rel) == {AbbreviatedHash(c) : c \in rel.commits}

LlmSettings ==
    [enable : BOOLEAN,
     provider : {None, Some("Gemini")},
     model : {None},
     token : {"", "replace_me", "secret"},
     max_commits : 0..MaxLlmCommits]

Template == "template"

TextOk(text) == [status |-> "ok", text |-> text, err |-> ""]

TextErr(msg) == [status |-> "err", text |-> "", err |-> msg]

\* validate_llm_settings: the error, "" when the settings are valid
ValidateLlmSettings(llm_settings) ==
    IF llm_settings.token = "" \/ llm_settings.token = "replace_me"
    THEN "LLM token missing"
    ELSE IF llm_settings.provider = None THEN "LLM provider missing"
    ELSE ""

\* generate_changelog_with_llm: what it can return, and whether the chat
\* request was sent on the way
LlmOutcomes(llm_settings, changelog_template, rel) ==
    IF ValidateLlmSettings(llm_settings) # ""
    THEN {[res |-> TextErr("Could not validate LLM settings"), contacted |-> FALSE]}
    ELSE IF Cardinality(ShortCommitKeys(rel)) > llm_settings.max_commits
    THEN {[res |-> TextOk(changelog_template), contacted |-> FALSE]}
    ELSE {[res |-> TextOk("generated"), contacted |-> TRUE],
          [res |-> TextErr("chat request failed"), contacted |-> TRUE]}

GenerateChangelogWithLlm ==
    /\ changelog = None
    /\ \E o \in LlmOutcomes(conf.val.conf.llm, Template, release) :
           /\ changelog' = Some(o.res)
           /\ llm_contacted' = o.contacted
    /\ UNCHANGED <<git, helpers, config, release, run_pc, details, answer, github,
                   run_result>>

CliConfigs ==
    [debug : {FALSE}, output_format : {"pretty"}, llm : LlmSettings]

InitLlm ==
    /\ GitIdle /\ HelpersIdle
    /\ args = None
    /\ loaded = None
    /\ conf \in {Some(ConfOk(c)) : c \in CliConfigs}
    /\ release \in Releases
    /\ run_pc = "idle"
    /\ changelog = None
    /\ details = None
    /\ answer = None
    /\ llm_contacted = FALSE
    /\ github = [created |-> FALSE, uploaded |-> <<>>]
    /\ run_result = None

SpecLlm == InitLlm /\ [][GenerateChangelogWithLlm]_vars

\* the settings the call was given, and the number of commits of the release
Settings == conf.val.conf.llm

CommitCount == Cardinality(release.commits)

\* C26: generate_changelog_with_llm first validates the settings (a
\* missing or placeholder token, or a missing provider, is an error before
\* anything else happens); then, if the number of commits in the release
\* exceeds llm.max_commits, it returns the changelog template unchanged
\* without contacting the LLM; the LLM is contacted only when the settings
\* are valid and the commit count is at most max_commits.
C26_LlmOnlyWithinMaxCommits ==
    changelog # None =>
        LET valid == Settings.token \notin {"", "replace_me"} /\ Settings.provider # None IN
        /\ ~valid => changelog.val.status = "err" /\ ~llm_contacted
        /\ (valid /\ CommitCount > Settings.max_commits) =>
               changelog.val = TextOk(Template) /\ ~llm_contacted
        /\ llm_contacted => valid /\ CommitCount <= Settings.max_commits

(***************************************************************************)
(* Cli::run, one action per step: process_changelog, render the release    *)
(* details, ask for confirmation, create the release, upload the assets.   *)
(***************************************************************************)
RunOk == [status |-> "ok", err |-> "", at |-> 0]

RunErr(msg, at) == [status |-> "err", err |-> msg, at |-> at]

\* what the user can type at the question
Answers == {<<"y">>, <<"Y">>, <<"n">>, <<"N">>, <<>>, <<"y", "e", "s">>}

\* variant: an answer that starts like the expected one is accepted
EqIgnoreAsciiCase_Prefix(a, b) ==
    /\ Len(a) >= Len(b)
    /\ \A i \in 1..Len(b) : LowerChar(a[i]) = LowerChar(b[i])

\* str::eq_ignore_ascii_case
EqIgnoreAsciiCase(a, b) ==
    /\ Len(a) = Len(b)
    /\ \A i \in 1..Len(a) : LowerChar(a[i]) = LowerChar(b[i])

\* changelog::get_contents_from_user: the edited text, or an error
UserContents == {TextOk("edited"), TextErr("Could not write final changelog file")}

\* process_changelog: what it can return, and whether the chat request was
\* sent on the way.  A changelog file left by an earlier run is handed to
\* the user as it is.
ChangelogOutcomes(c, rel) ==
    {[res |-> u, contacted |-> FALSE] : u \in UserContents}
    \cup
    IF c.llm.enable
    THEN UNION {IF o.res.status = "err"
                THEN {[res |-> TextErr("Could not alter changelog using LLM"),
                       contacted |-> o.contacted]}
                ELSE {[res |-> u, contacted |-> o.contacted] : u \in UserContents} :
                    o \in LlmOutcomes(c.llm, Template, rel)}
    ELSE {}

ProcessChangelog ==
    /\ run_pc = "idle"
    /\ \E o \in ChangelogOutcomes(conf.val.conf, release) :
           /\ llm_contacted' = o.contacted
           /\ IF o.res.status = "ok"
              THEN /\ changelog' = Some(o.res)
                   /\ run_pc' = "changelog"
                   /\ run_result' = run_result
              ELSE /\ changelog' = changelog
                   /\ run_pc' = "returned"
                   /\ run_result' = Some(RunErr("Could not create changelog", 0))
    /\ UNCHANGED <<git, helpers, config, release, details, answer, github>>

RenderReleaseDetails ==
    /\ run_pc = "changelog"
    /\ \/ /\ details' = Some("release details")
          /\ run_pc' = "rendered"
          /\ run_result' = run_result
       \/ /\ details' = details
          /\ run_pc' = "returned"
          /\ run_result' = Some(RunErr("Could not render release details", 0))
    /\ UNCHANGED <<git, helpers, config, release, changelog, answer, llm_contacted, github>>

Question ==
    /\ run_pc = "rendered"
    /\ \E a \in Answers :
           /\ answer' = Some(a)
           /\ IF ~EqIgnoreAsciiCase(a, <<"y">>)
              THEN run_pc' = "returned" /\ run_result' = Some(RunOk)
              ELSE run_pc' = "confirmed" /\ run_result' = run_result
    /\ UNCHANGED <<git, helpers, config, release, changelog, details, llm_contacted, github>>

\* create_github_release up to the created release; with no asset to
\* upload it returns at once
CreateRelease ==
    /\ run_pc = "confirmed"
    /\ \/ /\ github' = [github EXCEPT !.created = TRUE]
          /\ IF release.assets = <<>>
             THEN run_pc' = "returned" /\ run_result' = Some(RunOk)
             ELSE run_pc' = "uploading" /\ run_result' = run_result
       \/ /\ github' = github
          /\ run_pc' = "returned"
          /\ run_result' = Some(RunErr("Could not create release on Github", 0))
    /\ UNCHANGED <<git, helpers, config, release, changelog, details, answer, llm_contacted>>

\* one turn of the loop over release.assets: upload_asset(..)?
UploadAsset ==
    /\ run_pc = "uploading"
    /\ LET k == Len(github.uploaded) + 1 IN
       \/ /\ github' = [github EXCEPT !.uploaded = Append(@, release.assets[k])]
          /\ IF k = Len(release.assets)
             THEN run_pc' = "returned" /\ run_result' = Some(RunOk)
             ELSE run_pc' = run_pc /\ run_result' = run_result
       \/ /\ github' = github
          /\ run_pc' = "returned"
          /\ run_result' = Some(RunErr("Could not upload asset", k))
    /\ UNCHANGED <<git, helpers, config, release, changelog, details, answer, llm_contacted>>

NextRun ==
    \/ ProcessChangelog
    \/ RenderReleaseDetails
    \/ Question
    \/ CreateRelease
    \/ UploadAsset

SpecRun == InitLlm /\ [][NextRun]_vars

\* the user answered, and the answer is "y" in either case
Confirmed == answer # None /\ answer.val \in {<<"y">>, <<"Y">>}

Prepared == changelog # None /\ changelog.val.status = "ok" /\ details # None

C25_State ==
    /\ github.created => Prepared /\ Confirmed
    /\ (answer # None /\ ~Confirmed) =>
           /\ run_pc = "returned"
           /\ run_result = Some(RunOk)
           /\ ~github.created
           /\ github.uploaded = <<>>
    /\ github.uploaded # <<>> => github.created
    /\ IsPrefix(github.uploaded, release.assets)
    /\ \A k \in 1..Len(release.assets) :
           run_result = Some(RunErr("Could not upload asset", k)) =>
               github.uploaded = SubSeq(release.assets, 1, k - 1)

C25_Step ==
    /\ (github'.created /\ ~github.created) => Prepared /\ Confirmed
    /\ github'.uploaded # github.uploaded => github.created /\ run_result = None
    /\ run_result # None => github' = github

\* C25: in Cli::run the release is created, and assets uploaded, only
\* after the changelog was processed, the release details rendered and the
\* user answered "y" (in either case); for any other answer, an empty one
\* included, run returns Ok without creating a release or uploading an
\* asset; assets are uploaded only after the release was created, and the
\* first failing upload aborts the remaining ones.
C25_ReleaseOnlyAfterConfirmation == []C25_State /\ [][C25_Step]_vars

C25_Witness ==
    /\ run_result = Some(RunErr("Could not upload asset", 2))
    /\ Confirmed
    /\ github.created
    /\ Len(github.uploaded) = 1
    /\ Len(release.assets) >= 2

=============================================================================
